---- MODULE Spec2Model ----
(***************************************************************************)
(* RenderContext (core/render-context part of                              *)
(* packages/astro/src/actions/runtime/virtual/server.ts, lines 215-741).   *)
(*                                                                         *)
(* One Render Context serves one request.  render() is re-entered by       *)
(* #executeRewrite, so the model keeps an explicit stack with one frame    *)
(* per render() invocation that has not returned yet.  The middleware and  *)
(* the page / endpoint handlers are user code: every choice they can make  *)
(* (write a cookie, assign locals, read the body, call next, call          *)
(* rewrite, return, throw, catch) is a nondeterministic action.            *)
(***************************************************************************)
EXTENDS Integers, Sequences, FiniteSets, TLC

\* ---------------------------------------------------------------- bounds
MaxCounter == 5      \* render() invocations explored per request
MaxDepth == 3        \* render() invocations in progress at one time
MaxOps == 1          \* user steps off the plain call-and-return chain
                     \* explored per request: a cookie, locals or body
                     \* operation, an error of its own, or discarding a
                     \* Response or an error it was handed
MaxResults == 2      \* SSRResult objects explored per request
MaxMwRewrites == 3   \* next(payload) calls explored per request
MaxReads == 3        \* locale reads explored per request
MaxGlobals == 3      \* Astro globals explored per request
LocaleMaxCounter == 2  \* render() invocations explored with locale reads

\* ------------------------------------------------------ program constants
LoopThreshold == 4
LoopStatus == 508
FallbackStatus == 500
RewriteStatus == 200

\* ------------------------------------------------------------ value sets
PageRoutes == {"/a", "/b", "/404"}
Routes == PageRoutes \cup {"/api", "/old", "/fb"}
InitRoutes == {"/a", "/404", "/api"}
NoResult == [id |-> 0, cancelled |-> FALSE, status |-> 0, fate |-> "none"]
Path(x) == [isRequest |-> FALSE, path |-> x]
Req(x) == [isRequest |-> TRUE, path |-> x]
\* payloads handed to next(): lastNext passes them on to tryRewrite only
NextPayloads == {Path("/b"), Path("/old"), Path("/fb"), Path("/missing")}
\* payloads handed to rewrite(): a path or URL, or a Request
RewritePayloads == {Path("/b"), Req("/404"), Path("/missing")}
CookieNames == {"sid"}
CookieVals == {"v1", "v2"}
NoCookie == "-"
LocalsInputs == {"obj1", "str", "num", "null"}
NoLocals == "unset"
\* values of the route-type header on a Response the middleware builds
\* itself: absent, present with an empty value, present with a value
OwnRouteTypes == {"none", "", "page"}

VARIABLES
    \* fields of the RenderContext (lines 217-242)
    locals, pathname, request, routeData, status, cookies, params, url, props,
    originalRoute, isRewriting, counter,
    \* objects the context refers to
    requests,   \* Request objects, by identity
    jars,       \* AstroCookies objects, by identity: outgoing name -> value
    results,    \* number of SSRResult objects created so far
    \* control
    stack,      \* one frame per render() invocation in progress
    outcome,    \* "created" | "running" | "returned" | "threw"
    final,      \* the Response of the outermost render()
    thrown,     \* the error the outermost render() raised
    \* history
    lastOp, ops, route0, anchors, mwRewrites, drops, allRewrote,
    setNested, lastWrite,
    \* the pipeline (read only) and the accessors of the context
    pipeline,   \* serverLike, adapterName, i18n
    helperOut,  \* what the accessor or helper called last gave its caller
    memo,       \* #currentLocale, #preferredLocale, #preferredLocaleList
    seen,       \* history of the locale reads: the value each accessor
                \* gave first, the reads made, the resolver calls made
    \* the Astro globals of the pages
    astroPagePartial,  \* #astroPagePartial: 0, or the page partial cached
    partials,   \* page partial objects, by identity
    globals,    \* Astro globals, by identity: base, props, slots object
    slotsMade,  \* number of Slots objects constructed so far
    slotsOut,   \* what the slots getter called last gave its caller
    \* a second RenderContext over the same pipeline, and a copy of the
    \* first that is run with no other context around
    parked,     \* the fields of the context whose request is suspended
    turn,       \* 1 | 2: the context whose request is running
    twin,       \* the context and the objects put aside while the other run
                \* is looked at, and the running context at the last
                \* change of run
    phase,      \* "main": both requests | "alone": the copy
    \* an action made by defineAction (lines 48-121), and its calls
    action,     \* accept and input schema the action was defined with
    actionOut   \* the last call: input, outcome, calls of the user handler

ctxVars == <<locals, pathname, request, routeData, status, cookies, params,
             url, props, originalRoute, isRewriting, counter>>
heapVars == <<requests, jars, results>>
ctlVars == <<stack, outcome, final, thrown>>
histVars == <<lastOp, ops, route0, anchors, mwRewrites, drops,
              allRewrote, setNested, lastWrite>>
astroVars == <<astroPagePartial, partials, globals, slotsMade, slotsOut>>
twoVars == <<parked, turn, twin, phase>>
actVars == <<action, actionOut>>
auxVars == <<pipeline, helperOut, memo, seen, astroVars, twoVars, actVars>>
vars == <<ctxVars, heapVars, ctlVars, histVars, auxVars>>

\* --------------------------------------------------------------- helpers
RouteType(r) ==
    CASE r \in PageRoutes -> "page"
      [] r = "/api" -> "endpoint"
      [] r = "/old" -> "redirect"
      [] OTHER -> "fallback"

TypeOf(v) ==
    CASE v \in {"obj0", "obj1", "null", "arr"} -> "object"
      [] v = "str" -> "string"
      [] v = "num" -> "number"
      [] v = "fn" -> "function"
      [] OTHER -> "undefined"

EmptyProps == <<>>
GetProps(rd, pn) == <<"resolved", rd, pn>>
GetParams(rd, pn) == <<rd, pn>>

NewJar == [n \in CookieNames |-> NoCookie]
JarSet(j, n, v) == [j EXCEPT ![n] = v]
JarMerge(into, from) ==
    [n \in CookieNames |-> IF from[n] # NoCookie THEN from[n] ELSE into[n]]

Response(st, b) ==
    [status |-> st, body |-> b, routeType |-> "none", reroute |-> FALSE,
     rewrite |-> FALSE, jar |-> 0, tagged |-> FALSE]
NoResp == Response(0, "none")

Op(o, a) == [op |-> o, arg |-> a]

Top == stack[Len(stack)]
Depth == Len(stack)
Running == outcome = "running" /\ stack # <<>>
SetTop(f) == [stack EXCEPT ![Len(stack)] = f]
Below == SubSeq(stack, 1, Len(stack) - 1)

\* ------------------------------------------------------------------ Init
\* the pipeline of the main specification and an accessor not called yet
NoI18n == [on |-> FALSE, strategy |-> "", defaultLocale |-> ""]
DefaultPipeline == [serverLike |-> TRUE, adapterName |-> "node", i18n |-> NoI18n]
\* lines 665, 691, 702: the private fields start undefined
Undef == "undefined"
NoMemo == [current |-> Undef, preferred |-> Undef, list |-> Undef]
NoneSeen == [current |-> "unread", preferred |-> "unread", list |-> "unread",
             reads |-> 0, calls |-> 0]
Nobody == [none |-> TRUE]
NoSlots == [global |-> 0, slots |-> 0, again |-> FALSE]
\* no action defined, none called
NoAction == [accept |-> "none", schema |-> "none", defined |-> FALSE]
NoInput == [tag |-> "none", form |-> FALSE, valid |-> FALSE, id |-> 0]
NoCall == [calls |-> 0, input |-> NoInput, mode |-> "none", error |-> "none",
           issues |-> FALSE, thrown |-> FALSE, handled |-> 0, arg |-> NoInput,
           handledInAll |-> 0]
Idle == action = NoAction /\ actionOut = NoCall
NoOut == [kind |-> "none", input |-> "none", value |-> "none", error |-> "none"]

\* lines 219-268: the context RenderContext.create builds for a Request
\* with the given body ("null" or "stream"), client address and
\* Accept-Language locale
InitContext(body, addr, lang) ==
    /\ route0 \in InitRoutes
    /\ routeData = route0
    /\ originalRoute = route0
    /\ locals = "obj0"
    /\ pathname = route0
    /\ request = 1
    /\ requests = <<[url |-> route0, bodyUsed |-> FALSE, locals |-> NoLocals,
                     origin |-> "initial", body |-> body, address |-> addr,
                     sent |-> FALSE, lang |-> lang]>>
    /\ status = IF route0 = "/404" THEN 404 ELSE 200
    /\ cookies = 1
    /\ jars = <<NewJar>>
    /\ params = GetParams(route0, pathname)
    /\ url = route0
    /\ props \in (IF route0 = "/a" THEN {EmptyProps, <<"given">>}
                  ELSE {EmptyProps})
    /\ isRewriting = FALSE
    /\ counter = 0
    /\ results = 0
    /\ stack = <<>>
    /\ outcome = "created"
    /\ final = NoResp
    /\ thrown = "none"
    /\ lastOp = Op("create", "")
    /\ ops = 0
    /\ anchors = {}
    /\ mwRewrites = 0
    /\ drops = 0
    /\ allRewrote = TRUE
    /\ setNested = {}
    /\ lastWrite = NewJar
    /\ helperOut = NoOut
    /\ memo = NoMemo
    /\ seen = NoneSeen
    /\ astroPagePartial = 0
    /\ partials = <<>>
    /\ globals = <<>>
    /\ slotsMade = 0
    /\ slotsOut = NoSlots
    /\ parked = Nobody
    /\ turn = 1
    /\ twin = Nobody
    /\ phase = "main"

Init ==
    /\ InitContext("stream", "none", "none")
    /\ pipeline = DefaultPipeline
    /\ Idle

\* ------------------------------------------------- collaborators' results
\* pipeline.tryRewrite(payload, request, originalRoute): the route the
\* payload's URL matches, or an error when none does.
CanResolve(p) == p.path \in Routes
Resolve(p) == p.path
NewURL(p) == p.path

\* renderRedirect(this): a body-less redirect response (lines 331-332)
RenderRedirect == Response(301, "none")

\* ------------------------------------------------------- render(), start
\* lines 301-302: the loop guard, evaluated after the increment
IsLoopAt5(c) == c = 5
IsLoopFrom4(c) == c >= 4
IsLoop(c) == c = LoopThreshold

\* lines 303-308
LoopDetected == Response(LoopStatus, "Loop Detected")

\* lines 288-298: props of this attempt
AlwaysResolve(rd, pn) == GetProps(rd, pn)
ResolveProps(rd, pn) == IF props # EmptyProps THEN props ELSE GetProps(rd, pn)

\* lines 285-299: what one render() invocation captures before it runs the
\* middleware: the cookie jar, the props, and the API context's fields
\* (createActionAPIContext, lines 419 and 460); dRoute and dFlag record,
\* while a page or endpoint runs, the route and isRewriting the switch at
\* line 326 found
NewFrame(cks, rd, pn, req, u, prm, comp) ==
    [cookies |-> cks, props |-> ResolveProps(rd, pn), ctxRequest |-> req,
     ctxUrl |-> u, ctxParams |-> prm, comp |-> comp, pc |-> "mw",
     kind |-> "none", hjar |-> 0, hreq |-> 0, held |-> NoResp,
     exc |-> "none", result |-> NoResult, rewrote |-> FALSE,
     dRoute |-> "", dFlag |-> FALSE]

\* a Response handed back to the caller of render(): the user code of the
\* frame below, or the entry point
ReturnTo(stk, resp) ==
    IF stk = <<>>
    THEN /\ stack' = <<>>
         /\ outcome' = "returned"
         /\ final' = resp
         /\ thrown' = thrown
    ELSE /\ stack' = [stk EXCEPT ![Len(stk)].held = resp]
         /\ UNCHANGED <<outcome, final, thrown>>

\* an exception leaving render()
ThrowSwallowed(stk, e) == ReturnTo(stk, Response(500, "none"))
ThrowTo(stk, e) ==
    IF stk = <<>>
    THEN /\ stack' = <<>>
         /\ outcome' = "threw"
         /\ thrown' = e
         /\ final' = final
    ELSE /\ stack' = [stk EXCEPT ![Len(stk)].exc = e,
                                 ![Len(stk)].held = NoResp]
         /\ UNCHANGED <<outcome, final, thrown>>

\* lines 281-309 for the invocation made by the entry point
Render ==
    /\ outcome = "created"
    /\ counter' = counter + 1
    /\ IF IsLoop(counter + 1)
       THEN /\ stack' = <<>>
            /\ outcome' = "returned"
            /\ final' = LoopDetected
       ELSE /\ stack' = <<NewFrame(cookies, routeData, pathname, request, url,
                                   params, routeData)>>
            /\ outcome' = "running"
            /\ final' = final
    /\ lastOp' = Op("render", "")
    /\ UNCHANGED <<locals, pathname, request, routeData, status, cookies,
                   params, url, props, originalRoute, isRewriting>>
    /\ UNCHANGED <<heapVars, thrown>>
    /\ UNCHANGED <<ops, route0, anchors, mwRewrites, drops, allRewrote,
                   setNested, lastWrite>>
    /\ UNCHANGED auxVars

\* every piece of user code so far handed on what it was handed
PassThrough == drops = 0

\* ------------------------------------------------ user code: small steps
\* the jar and the Request the running user code holds: the middleware and
\* an endpoint hold the API context's (lines 429, 460); a page holds the
\* ones its Result and page partial were built from (lines 467, 595, 631)
UserJar == IF Top.pc = "mw" THEN Top.cookies ELSE Top.hjar
UserRequest == IF Top.pc = "mw" THEN Top.ctxRequest ELSE Top.hreq

\* cookies.set(name, value) on the jar the user code holds
SetCookie(n, v) ==
    /\ Running
    /\ Top.exc = "none"
    /\ ops < MaxOps
    /\ jars' = [jars EXCEPT ![UserJar] = JarSet(@, n, v)]
    /\ ops' = ops + 1
    /\ lastWrite' = [lastWrite EXCEPT ![n] = v]
    /\ setNested' = IF Depth >= 2 THEN setNested \cup {n} ELSE setNested
    /\ lastOp' = Op("setCookie", n)
    /\ UNCHANGED <<ctxVars, requests, results, ctlVars>>
    /\ UNCHANGED <<route0, anchors, mwRewrites, drops, allRewrote>>
    /\ UNCHANGED auxVars

\* line 442: the setter's test, `typeof val !== 'object'` (typeof null is
\* 'object')
AcceptsNonNull(val) == TypeOf(val) = "object" /\ val # "null"
LocalsAccepts(val) == TypeOf(val) = "object"

\* lines 441-450: `context.locals = val` by the middleware or an endpoint
\* (a page's Astro.locals is a plain property, line 628, not this setter)
SetLocals(val) ==
    /\ Running
    /\ Top.exc = "none"
    /\ Top.pc = "mw" \/ Top.kind = "endpoint"
    /\ ops < MaxOps
    /\ ops' = ops + 1
    /\ lastOp' = Op("setLocals", val)
    /\ IF LocalsAccepts(val)
       THEN /\ locals' = val
            /\ requests' = [requests EXCEPT ![Top.ctxRequest].locals = val]
            /\ stack' = stack
       ELSE /\ stack' = SetTop([Top EXCEPT !.exc = "LocalsNotAnObject"])
            /\ UNCHANGED <<locals, requests>>
    /\ UNCHANGED <<pathname, request, routeData, status, cookies, params, url,
                   props, originalRoute, isRewriting, counter>>
    /\ UNCHANGED <<jars, results, outcome, final, thrown>>
    /\ UNCHANGED <<route0, anchors, mwRewrites, drops, allRewrote,
                   setNested, lastWrite>>
    /\ UNCHANGED auxVars

\* the user code consumes the body of the Request it holds
ReadBody ==
    /\ Running
    /\ Top.exc = "none"
    /\ ops < MaxOps
    /\ requests[UserRequest].body # "null"
    /\ ~requests[UserRequest].bodyUsed
    /\ requests' = [requests EXCEPT ![UserRequest].bodyUsed = TRUE]
    /\ ops' = ops + 1
    /\ lastOp' = Op("readBody", "")
    /\ UNCHANGED <<ctxVars, jars, results, ctlVars>>
    /\ UNCHANGED <<route0, anchors, mwRewrites, drops, allRewrote,
                   setNested, lastWrite>>
    /\ UNCHANGED auxVars

\* the user code catches the exception it was handed and goes on
Catch ==
    /\ Running
    /\ Top.exc # "none"
    /\ ops < MaxOps
    /\ drops' = drops + 1
    /\ ops' = ops + 1
    /\ stack' = SetTop([Top EXCEPT !.exc = "none"])
    /\ lastOp' = Op("catch", Top.exc)
    /\ UNCHANGED <<ctxVars, heapVars, outcome, final, thrown>>
    /\ UNCHANGED <<route0, anchors, mwRewrites, allRewrote, setNested,
                   lastWrite>>
    /\ UNCHANGED auxVars

\* ------------------------------------------- lastNext (lines 310-373)
\* `if (payload)`: next() and next('') carry no payload
NoPayload == [isRequest |-> FALSE, path |-> ""]

\* line 317: the route tryRewrite is anchored on
NextAnchor == originalRoute

\* lines 321-322
NextKeepsFlag == isRewriting
NextRewriting == TRUE
NextKeepsStatus == status
NextStatus == RewriteStatus

\* lines 494-496, 511 (status captured at line 467): a new SSRResult
CreateResult(id, st) ==
    [id |-> id, cancelled |-> FALSE, status |-> st, fate |-> "rendering"]

\* line 363
FallbackResponse ==
    [Response(FallbackStatus, "none") EXCEPT !.routeType = "fallback",
                                             !.tagged = TRUE]

\* the middleware calls next(payload?): rewrite resolution (lines 311-323)
\* and dispatch by the type of the route that is current then (326-365)
Next(p) ==
    /\ Running
    /\ Top.pc = "mw"
    /\ Top.exc = "none"
    /\ LET rewriting == p # NoPayload
           ok == ~rewriting \/ CanResolve(p)
           rd == IF rewriting THEN Resolve(p) ELSE routeData
           st == IF rewriting THEN NextStatus ELSE status
           fl == IF rewriting THEN NextRewriting ELSE isRewriting
           base == [Top EXCEPT !.held = NoResp,
                               !.comp = IF rewriting THEN rd ELSE @,
                               !.rewrote = @ \/ rewriting]
       IN
       /\ rewriting => mwRewrites < MaxMwRewrites
       /\ (ok /\ RouteType(rd) = "page") => results < MaxResults
       /\ anchors' = IF rewriting THEN anchors \cup {NextAnchor} ELSE anchors
       /\ Top.held # NoResp => ops < MaxOps
       /\ drops' = IF Top.held # NoResp THEN drops + 1 ELSE drops
       /\ ops' = IF Top.held # NoResp THEN ops + 1 ELSE ops
       /\ lastOp' = Op(IF rewriting THEN "nextPayload" ELSE "next",
                       IF ok THEN "ok" ELSE "failed")
       /\ IF ~ok
          THEN /\ stack' = SetTop([Top EXCEPT !.exc = "RewriteFailed",
                                              !.held = NoResp])
               /\ UNCHANGED <<routeData, isRewriting, status, results,
                              mwRewrites>>
          ELSE /\ routeData' = rd
               /\ isRewriting' = fl
               /\ status' = st
               /\ mwRewrites' = IF rewriting THEN mwRewrites + 1
                                 ELSE mwRewrites
               /\ CASE RouteType(rd) = "endpoint" ->
                         /\ stack' = SetTop([base EXCEPT
                                !.pc = "handler", !.kind = "endpoint",
                                !.hjar = Top.cookies,
                                !.hreq = Top.ctxRequest,
                                !.dRoute = rd, !.dFlag = fl])
                         /\ results' = results
                    [] RouteType(rd) = "redirect" ->
                         /\ stack' = SetTop([base EXCEPT
                                !.held = RenderRedirect])
                         /\ results' = results
                    [] RouteType(rd) = "page" ->
                         /\ results' = results + 1
                         /\ stack' = SetTop([base EXCEPT
                                !.pc = "handler", !.kind = "page",
                                !.hjar = cookies, !.hreq = request,
                                !.result = CreateResult(results + 1, st),
                                !.dRoute = rd, !.dFlag = fl])
                    [] OTHER ->
                         /\ stack' = SetTop([base EXCEPT
                                !.held = FallbackResponse])
                         /\ results' = results
    /\ UNCHANGED <<locals, pathname, request, cookies, params, url, props,
                   originalRoute, counter>>
    /\ UNCHANGED <<requests, jars, outcome, final, thrown>>
    /\ UNCHANGED <<route0, allRewrote, setNested, lastWrite>>
    /\ UNCHANGED auxVars

\* next(payload?) on a redirect route whose rendering throws: the
\* assignments of lines 319-322 are made, line 332 lets the error out of
\* lastNext, and the middleware is handed it
NextThrows(p) ==
    /\ Running
    /\ Top.pc = "mw"
    /\ Top.exc = "none"
    /\ Top.held = NoResp
    /\ ops < MaxOps
    /\ LET rewriting == p # NoPayload
           rd == IF rewriting THEN Resolve(p) ELSE routeData
       IN
       /\ ~rewriting \/ CanResolve(p)
       /\ RouteType(rd) = "redirect"
       /\ rewriting => mwRewrites < MaxMwRewrites
       /\ routeData' = rd
       /\ isRewriting' = IF rewriting THEN NextRewriting ELSE isRewriting
       /\ status' = IF rewriting THEN NextStatus ELSE status
       /\ mwRewrites' = IF rewriting THEN mwRewrites + 1 ELSE mwRewrites
       /\ anchors' = IF rewriting THEN anchors \cup {NextAnchor} ELSE anchors
       /\ stack' = SetTop([Top EXCEPT !.exc = "RedirectError",
                                      !.comp = IF rewriting THEN rd ELSE @,
                                      !.rewrote = @ \/ rewriting])
    /\ ops' = ops + 1
    /\ lastOp' = Op(IF p # NoPayload THEN "nextPayloadThrows"
                    ELSE "nextThrows", "RedirectError")
    /\ UNCHANGED <<locals, pathname, request, cookies, params, url, props,
                   originalRoute, counter>>
    /\ UNCHANGED <<heapVars, outcome, final, thrown>>
    /\ UNCHANGED <<route0, drops, allRewrote, setNested, lastWrite>>
    /\ UNCHANGED auxVars

\* lines 351-359: the markers a rendered page response gets
TagNoMarkers(r) == [r EXCEPT !.routeType = "page", !.tagged = TRUE]
TagPage(r) ==
    [r EXCEPT !.routeType = "page",
              !.reroute = IF routeData \in {"/404", "/500"} THEN TRUE ELSE @,
              !.rewrite = IF isRewriting THEN TRUE ELSE @,
              !.tagged = TRUE]

\* lines 368-371: getCookiesFromResponse, then cookies.merge on the jar
\* captured at line 285
MergeNothing(r, jar) == jars
MergedJars(r, jar) ==
    IF r.jar # 0 THEN [jars EXCEPT ![jar] = JarMerge(@, jars[r.jar])]
    ELSE jars

\* the page or endpoint hands back a Response: its own, or the one it got
\* from rewrite(); then the rest of lastNext (lines 351-372)
HandlerReturn(own) ==
    /\ Running
    /\ Top.pc = "handler"
    /\ Top.exc = "none"
    /\ own \/ Top.held # NoResp
    /\ LET r0 == IF ~own THEN Top.held
                 ELSE IF Top.kind = "page"
                      THEN Response(Top.result.status, "page")
                      ELSE Response(200, "endpoint")
           r1 == IF Top.kind = "page" THEN TagPage(r0) ELSE r0
       IN
       /\ jars' = MergedJars(r1, Top.cookies)
       /\ stack' = SetTop([Top EXCEPT
                              !.pc = "mw", !.held = r1, !.kind = "none",
                              !.hjar = 0, !.hreq = 0,
                              !.dRoute = "", !.dFlag = FALSE,
                              !.result = IF Top.kind = "page"
                                         THEN [@ EXCEPT !.fate = "returned"]
                                         ELSE @])
    /\ (own /\ Top.held # NoResp) => ops < MaxOps
    /\ drops' = IF own /\ Top.held # NoResp THEN drops + 1 ELSE drops
    /\ ops' = IF own /\ Top.held # NoResp THEN ops + 1 ELSE ops
    /\ lastOp' = Op("handlerReturn", IF own THEN "own" ELSE "held")
    /\ UNCHANGED <<ctxVars, requests, results, outcome, final, thrown>>
    /\ UNCHANGED <<route0, anchors, mwRewrites, allRewrote, setNested,
                   lastWrite>>
    /\ UNCHANGED auxVars

\* line 347
CancelNothing(res) == res
Cancel(res) == [res EXCEPT !.cancelled = TRUE]

\* an exception leaves the page or endpoint: its own error, or the one it
\* was handed and did not catch (lines 344-349 for a page)
HandlerThrow ==
    /\ Running
    /\ Top.pc = "handler"
    /\ Top.exc = "none" => ops < MaxOps
    /\ ops' = IF Top.exc = "none" THEN ops + 1 ELSE ops
    /\ LET e == IF Top.exc # "none" THEN Top.exc ELSE "UserError" IN
       /\ stack' = SetTop([Top EXCEPT
                              !.pc = "mw", !.exc = e, !.held = NoResp,
                              !.kind = "none", !.hjar = 0, !.hreq = 0,
                              !.dRoute = "", !.dFlag = FALSE,
                              !.result = IF Top.kind = "page"
                                         THEN [Cancel(@) EXCEPT
                                                 !.fate = "threw"]
                                         ELSE @])
       /\ lastOp' = Op("handlerThrow", e)
    /\ UNCHANGED <<ctxVars, heapVars, outcome, final, thrown>>
    /\ UNCHANGED <<route0, anchors, mwRewrites, drops, allRewrote,
                   setNested, lastWrite>>
    /\ UNCHANGED auxVars

\* ------------------------------------- render(), end (lines 375-383)
\* lines 376-378: headers.get() yields null for an absent header and the
\* header's value otherwise; the header is deleted when that is truthy
StripRouteType(r) ==
    IF r.routeType \notin {"none", ""} THEN [r EXCEPT !.routeType = "none"]
    ELSE r

\* line 382: attachCookiesToResponse puts the jar on the Response object,
\* in place of any jar put there before
AttachCurrent(r, jar) == [r EXCEPT !.jar = cookies]
AttachCookies(r, jar) == [r EXCEPT !.jar = jar]

\* the middleware returns a Response: its own, or the one it got from
\* next() or rewrite(); render() finishes and returns to its caller
MwReturn(own, rt) ==
    /\ Running
    /\ Top.pc = "mw"
    /\ Top.exc = "none"
    /\ own \/ Top.held # NoResp
    /\ ~own => rt = "none"
    /\ LET r0 == IF own THEN [Response(200, "mw") EXCEPT !.routeType = rt]
                 ELSE Top.held
           r1 == AttachCookies(StripRouteType(r0), Top.cookies)
       IN ReturnTo(Below, r1)
    /\ (own /\ Top.held # NoResp) => ops < MaxOps
    /\ drops' = IF own /\ Top.held # NoResp THEN drops + 1 ELSE drops
    /\ ops' = IF own /\ Top.held # NoResp THEN ops + 1 ELSE ops
    /\ allRewrote' = (allRewrote /\ Top.rewrote)
    /\ lastOp' = Op("mwReturn", IF own THEN "own" ELSE "held")
    /\ UNCHANGED <<ctxVars, heapVars>>
    /\ UNCHANGED <<route0, anchors, mwRewrites, setNested, lastWrite>>
    /\ UNCHANGED auxVars

\* an exception leaves the middleware, and so render() (line 375 has no
\* handler around it)
MwThrow ==
    /\ Running
    /\ Top.pc = "mw"
    /\ Top.exc = "none" => ops < MaxOps
    /\ ops' = IF Top.exc = "none" THEN ops + 1 ELSE ops
    /\ LET e == IF Top.exc # "none" THEN Top.exc ELSE "UserError" IN
       /\ ThrowTo(Below, e)
       /\ lastOp' = Op("mwThrow", e)
    /\ UNCHANGED <<ctxVars, heapVars>>
    /\ UNCHANGED <<route0, anchors, mwRewrites, drops, allRewrote,
                   setNested, lastWrite>>
    /\ UNCHANGED auxVars

\* ------------------------------- #executeRewrite (lines 394-415)
\* line 399
ExecAnchorCurrent == routeData
ExecAnchor == originalRoute

\* lines 719-722
CopyNeverRefused(old) == FALSE
CopyRefused(old) == old.bodyUsed

\* lines 402-406: the Request the context gets
\* a supplied Request is a new GET Request, Accept-Language SuppliedLang;
\* a clone (lines 723-739) takes the old one's body and headers, and none
\* of the symbol slots (client address, locals, response sent)
SuppliedLang == "fr"
NewRequest(p) ==
    [url |-> NewURL(p), bodyUsed |-> FALSE, locals |-> NoLocals,
     origin |-> IF p.isRequest THEN "supplied" ELSE "clone",
     body |-> IF p.isRequest THEN "null" ELSE requests[request].body,
     address |-> "none", sent |-> FALSE,
     lang |-> IF p.isRequest THEN SuppliedLang ELSE requests[request].lang]

\* line 410
ExecKeepsPathname(u) == pathname
ExecPathname(u) == u

\* lines 411-413
ExecRewriting == TRUE

\* line 401 comes before the copy of line 405: the route the context has
\* when the copy is refused
RefusedKeepsRoute(p) == routeData
RefusedRoute(p) == Resolve(p)

\* rewrite(payload) called on the API context (line 424) or on the page
\* partial (line 607): #executeRewrite and the start of the render() it
\* calls (lines 285-309)
Rewrite(p) ==
    /\ Running
    /\ Top.exc = "none"
    /\ counter < MaxCounter
    /\ Depth < MaxDepth \/ IsLoop(counter + 1) \/ ~CanResolve(p)
    /\ anchors' = anchors \cup {ExecAnchor}
    /\ Top.held # NoResp => ops < MaxOps
    /\ drops' = IF Top.held # NoResp THEN drops + 1 ELSE drops
    /\ ops' = IF Top.held # NoResp THEN ops + 1 ELSE ops
    /\ IF ~CanResolve(p)
       THEN /\ stack' = SetTop([Top EXCEPT !.exc = "RewriteFailed",
                                           !.held = NoResp])
            /\ lastOp' = Op("rewrite", "RewriteFailed")
            /\ UNCHANGED <<ctxVars, heapVars>>
       ELSE IF ~p.isRequest /\ CopyRefused(requests[request])
       THEN /\ routeData' = RefusedRoute(p)
            /\ stack' = SetTop([Top EXCEPT !.exc = "RewriteWithBodyUsed",
                                           !.held = NoResp])
            /\ lastOp' = Op("rewrite", "RewriteWithBodyUsed")
            /\ UNCHANGED <<locals, pathname, request, status, cookies, params,
                           url, props, originalRoute, isRewriting, counter>>
            /\ UNCHANGED heapVars
       ELSE LET rd == Resolve(p)
                req == Len(requests) + 1
                u == NewRequest(p).url
                jar == Len(jars) + 1
                prm == GetParams(rd, u)
                pn == ExecPathname(u)
                caller == [Top EXCEPT !.held = NoResp, !.rewrote = TRUE]
            IN
            /\ routeData' = rd
            /\ requests' = Append(requests, NewRequest(p))
            /\ request' = req
            /\ url' = u
            /\ jars' = Append(jars, NewJar)
            /\ cookies' = jar
            /\ params' = prm
            /\ pathname' = pn
            /\ isRewriting' = ExecRewriting
            /\ status' = RewriteStatus
            /\ counter' = counter + 1
            /\ stack' = IF IsLoop(counter + 1)
                        THEN SetTop([caller EXCEPT !.held = LoopDetected])
                        ELSE Append(SetTop(caller),
                                    NewFrame(jar, rd, pn, req, u, prm, rd))
            /\ lastOp' = Op("rewrite", IF IsLoop(counter + 1) THEN "loop"
                                       ELSE "ok")
            /\ UNCHANGED <<locals, props, originalRoute, results>>
    /\ UNCHANGED <<outcome, final, thrown>>
    /\ UNCHANGED <<route0, mwRewrites, allRewrote, setNested, lastWrite>>
    /\ UNCHANGED auxVars

\* ------------------------------------- accessors (lines 421-422, 597-659)
Out(k, in, v, e) == [kind |-> k, input |-> in, value |-> v, error |-> e]

\* the frame conditions of a call that only reads the context: it gives
\* its caller a value, or raises the error in the user code that called it
Gives(out) ==
    /\ helperOut' = out
    /\ stack' = IF out.error = "none" THEN stack
                ELSE SetTop([Top EXCEPT !.exc = out.error])
    /\ UNCHANGED <<ctxVars, heapVars, outcome, final, thrown>>
    /\ UNCHANGED <<ops, route0, anchors, mwRewrites, drops, allRewrote,
                   setNested, lastWrite, pipeline, astroVars, twoVars,
                   actVars>>

\* an accessor that keeps no value
Plain(out) == Gives(out) /\ UNCHANGED <<memo, seen>>

\* lines 645-658: the error when no address is stored on the Request
AddressErrorAdapterFirst(req) ==
    IF pipeline.serverLike /\ pipeline.adapterName # "none"
    THEN "ClientAddressNotAvailable:" \o pipeline.adapterName
    ELSE IF pipeline.serverLike /\ req.body = "null"
    THEN "PrerenderClientAddressNotAvailable"
    ELSE "StaticClientAddressNotAvailable"
AddressError(req) ==
    IF pipeline.serverLike /\ req.body = "null"
    THEN "PrerenderClientAddressNotAvailable"
    ELSE IF pipeline.serverLike /\ pipeline.adapterName # "none"
    THEN "ClientAddressNotAvailable:" \o pipeline.adapterName
    ELSE "StaticClientAddressNotAvailable"

\* lines 639-659: clientAddress(), read through the getter of the API
\* context (430-432) or of the page partial (615-617)
ClientAddress ==
    /\ Running
    /\ Top.exc = "none"
    /\ LET req == requests[request] IN
       Plain(IF req.address # "none"
             THEN Out("clientAddress", "none", req.address, "none")
             ELSE Out("clientAddress", "none", "none", AddressError(req)))
    /\ lastOp' = Op("clientAddress", "")

\* lines 421-422 and 597, 604: `status = 302` when the caller gives none
\* (an omitted status is written 0)
RedirectPaths == {"/login", "/b"}
RedirectStatuses == {0, 301}
DefaultRedirectStatus == 302
RedirectResponse(path, st) ==
    [status |-> IF st = 0 THEN DefaultRedirectStatus ELSE st,
     location |-> path, body |-> "none"]

\* lines 421-422: redirect() of the API context, called by the middleware
\* or an endpoint
ApiRedirect(path, st) ==
    /\ Running
    /\ Top.exc = "none"
    /\ Top.pc = "mw" \/ Top.kind = "endpoint"
    /\ Plain(Out("redirect", <<path, st>>, RedirectResponse(path, st), "none"))
    /\ lastOp' = Op("apiRedirect", "")

\* lines 598-603: the test redirect() of the page partial makes first, on
\* the Request the context holds when redirect() is called
SentNeverChecked(req) == FALSE
SentRefuses(req) == req.sent

\* lines 597-605: redirect() of the page partial, called by a page
PageRedirect(path, st) ==
    /\ Running
    /\ Top.exc = "none"
    /\ Top.pc = "handler" /\ Top.kind = "page"
    /\ Plain(IF SentRefuses(requests[request])
             THEN Out("redirect", <<path, st>>, "none", "ResponseSentError")
             ELSE Out("redirect", <<path, st>>, RedirectResponse(path, st),
                      "none"))
    /\ lastOp' = Op("pageRedirect", "")

\* renderPage starts to stream the page: the Request of the Result (line
\* 512) is marked as response sent
MarkSent ==
    /\ Running
    /\ Top.exc = "none"
    /\ Top.pc = "handler" /\ Top.kind = "page"
    /\ ~requests[Top.hreq].sent
    /\ requests' = [requests EXCEPT ![Top.hreq].sent = TRUE]
    /\ lastOp' = Op("markSent", "")
    /\ UNCHANGED <<ctxVars, jars, results, ctlVars, auxVars>>
    /\ UNCHANGED <<ops, route0, anchors, mwRewrites, drops, allRewrote,
                   setNested, lastWrite>>

\* ------------------------------------ locale accessors (lines 661-711)
\* i18n/utils.js: the locale the resolver finds in a route or a path (fr in
\* /b, none elsewhere), and in the Accept-Language header of a Request
ResolveLocale(path) == IF path = "/b" THEN "fr" ELSE Undef
ResolvePreferred(req) == IF req.lang = "none" THEN Undef ELSE req.lang
ResolvePreferredList(req) ==
    IF req.lang = "none" THEN "[]" ELSE "[" \o req.lang \o "]"

\* lines 677-680
FallbackTo ==
    IF pipeline.i18n.strategy \in {"pathname-prefix-other-locales",
                                   "domains-prefix-other-locales"}
    THEN pipeline.i18n.defaultLocale
    ELSE Undef

\* `a ?? b`
Coalesce(a, b) == IF a # Undef THEN a ELSE b

\* lines 686-688: the right-hand side of the assignment, and the resolver
\* calls its evaluation makes
CurrentComputed ==
    Coalesce(ResolveLocale(routeData),
             Coalesce(ResolveLocale(url), FallbackTo))
CurrentCalls == IF ResolveLocale(routeData) # Undef THEN 1 ELSE 2

\* `field ??= rhs`: rhs is evaluated, and assigned, only when the field is
\* null or undefined; the read gives its caller `out`
ReadMemo(name, field, rhs, calls) ==
    /\ Running
    /\ Top.exc = "none"
    /\ seen.reads < MaxReads
    /\ lastOp' = Op(name, "")
    /\ IF ~pipeline.i18n.on
       THEN /\ Plain(Out(name, "none", Undef, "none"))
       ELSE LET hit == memo[field] # Undef
                value == IF hit THEN memo[field] ELSE rhs
            IN /\ Gives(Out(name, "none", value, "none"))
               /\ memo' = [memo EXCEPT ![field] = value]
               /\ seen' = [seen EXCEPT
                              ![field] = IF @ = "unread" THEN value ELSE @,
                              !.reads = @ + 1,
                              !.calls = IF hit THEN @ ELSE @ + calls]

\* lines 667-689
ComputeCurrentLocale ==
    ReadMemo("currentLocale", "current", CurrentComputed, CurrentCalls)

\* lines 693-700
ComputePreferredLocale ==
    ReadMemo("preferredLocale", "preferred",
             ResolvePreferred(requests[request]), 1)

\* lines 704-711
ComputePreferredLocaleList ==
    ReadMemo("preferredLocaleList", "list",
             ResolvePreferredList(requests[request]), 1)

\* ------------------------------------------------------------------ Next
\* lines 437-439: `context.locals` read by the middleware or an endpoint
GetLocals ==
    /\ Running
    /\ Top.exc = "none"
    /\ Top.pc = "mw" \/ Top.kind = "endpoint"
    /\ lastOp' = Op("getLocals", "")
    /\ Plain(Out("locals", "", locals, "none"))

\* ------------------------------- the Astro global (lines 533-637)
PropsInputs == {"p1", "p2"}

\* lines 611-636: the page partial built from the context as it is now and
\* from the Result of the page being rendered
CreateAstroPagePartial(res) ==
    [cookies |-> cookies, locals |-> locals, params |-> params, url |-> url,
     request |-> request, response |-> res]

\* lines 551-562: `if (this.isRewriting)` builds a page partial; otherwise
\* `??=` builds one only when none is cached
AlwaysRebuild == TRUE
RebuildPartial == isRewriting \/ astroPagePartial = 0

\* result.createAstro(astroGlobal, props, slots) called for one use of a
\* component of the page being rendered (lines 543-588)
CreateAstro(p) ==
    /\ Running
    /\ Top.pc = "handler" /\ Top.kind = "page"
    /\ Top.exc = "none"
    /\ Len(globals) < MaxGlobals
    /\ IF RebuildPartial
       THEN /\ partials' = Append(partials,
                                  CreateAstroPagePartial(Top.result.id))
            /\ astroPagePartial' = Len(partials) + 1
       ELSE UNCHANGED <<partials, astroPagePartial>>
    /\ globals' = Append(globals, [base |-> astroPagePartial', props |-> p,
                                   slots |-> 0])
    /\ lastOp' = Op("createAstro", p)
    /\ UNCHANGED <<ctxVars, heapVars, ctlVars>>
    /\ UNCHANGED <<ops, route0, anchors, mwRewrites, drops, allRewrote,
                   setNested, lastWrite>>
    /\ UNCHANGED <<pipeline, helperOut, memo, seen, slotsMade, slotsOut,
                   twoVars, actVars>>

\* line 576: `if (!_slots)`
NeedsSlots(g) == globals[g].slots = 0

\* lines 574-585: the page reads Astro.slots of one of its globals
ReadSlots(g) ==
    /\ Running
    /\ Top.pc = "handler" /\ Top.kind = "page"
    /\ Top.exc = "none"
    /\ g \in 1..Len(globals)
    /\ IF NeedsSlots(g)
       THEN /\ slotsMade' = slotsMade + 1
            /\ globals' = [globals EXCEPT ![g].slots = slotsMade + 1]
       ELSE UNCHANGED <<slotsMade, globals>>
    /\ slotsOut' = [global |-> g, slots |-> globals'[g].slots,
                    again |-> globals[g].slots # 0]
    /\ lastOp' = Op("slots", "")
    /\ UNCHANGED <<ctxVars, heapVars, ctlVars>>
    /\ UNCHANGED <<ops, route0, anchors, mwRewrites, drops, allRewrote,
                   setNested, lastWrite>>
    /\ UNCHANGED <<pipeline, helperOut, memo, seen, astroPagePartial,
                   partials, twoVars, actVars>>

Step ==
    \/ Render
    \/ \E n \in CookieNames, v \in CookieVals : SetCookie(n, v)
    \/ \E val \in LocalsInputs : SetLocals(val)
    \/ ReadBody
    \/ Catch
    \/ \E p \in NextPayloads \cup {NoPayload} : Next(p)
    \/ \E p \in NextPayloads \cup {NoPayload} : NextThrows(p)
    \/ \E own \in BOOLEAN : HandlerReturn(own)
    \/ HandlerThrow
    \/ \E own \in BOOLEAN, rt \in OwnRouteTypes : MwReturn(own, rt)
    \/ MwThrow
    \/ \E p \in RewritePayloads : Rewrite(p)

Spec == Init /\ [][Step]_vars

\* ------------------------------ the accessors, on every kind of pipeline
Bodies == {"null", "stream"}
Addresses == {"none", "10.0.0.1"}
Adapters == {"none", "node"}

InitAccess ==
    /\ Idle
    /\ \E body \in Bodies, addr \in Addresses : InitContext(body, addr, "none")
    /\ pipeline \in [serverLike : BOOLEAN, adapterName : Adapters,
                      i18n : {NoI18n}]

StepAccess ==
    \/ Render
    \/ \E p \in {NoPayload, Path("/b")} : Next(p)
    \/ HandlerReturn(TRUE)
    \/ MwReturn(FALSE, "none")
    \/ ClientAddress
    \/ \E path \in RedirectPaths, st \in RedirectStatuses :
          ApiRedirect(path, st)
    \/ \E path \in RedirectPaths, st \in RedirectStatuses :
          PageRedirect(path, st)
    \/ MarkSent

SpecAccess == InitAccess /\ [][StepAccess]_vars

\* ------------------------------- the locale accessors, with rewrites
Strategies == {"pathname-prefix-other-locales", "pathname-prefix-always"}
Langs == {"none", "en"}

InitLocale ==
    /\ Idle
    /\ \E lang \in Langs : InitContext("stream", "none", lang)
    /\ route0 = "/a"
    /\ props = EmptyProps
    /\ pipeline \in [serverLike : {TRUE}, adapterName : {"node"},
                      i18n : {NoI18n}
                             \cup [on : {TRUE}, strategy : Strategies,
                                   defaultLocale : {"en"}]]

\* rewrite(payload) while fewer than k render() invocations were made
RewriteWithin(p, k) ==
    /\ counter < k
    /\ Rewrite(p)

StepLocale ==
    \/ Render
    \/ \E p \in {NoPayload, Path("/b")} : Next(p)
    \/ HandlerReturn(TRUE)
    \/ MwReturn(FALSE, "none")
    \/ \E p \in {Path("/b"), Req("/404")} :
          RewriteWithin(p, LocaleMaxCounter)
    \/ ComputeCurrentLocale
    \/ ComputePreferredLocale
    \/ ComputePreferredLocaleList

SpecLocale == InitLocale /\ [][StepLocale]_vars

\* locals written and read through the API contexts of one request, with
\* a value of every type tag
AllLocalsInputs == {"obj1", "arr", "null", "str", "num", "fn", Undef}
LocalsMaxCounter == 3

StepLocals ==
    \/ Render
    \/ \E p \in {NoPayload, Path("/api")} : Next(p)
    \/ \E own \in BOOLEAN : HandlerReturn(own)
    \/ MwReturn(FALSE, "none")
    \/ RewriteWithin(Path("/b"), LocalsMaxCounter)
    \/ \E val \in AllLocalsInputs : SetLocals(val)
    \/ GetLocals

SpecLocals == Init /\ [][StepLocals]_vars

\* pages that create Astro globals and read their slots, before and after
\* rewrites
AstroMaxCounter == 2

InitAstro ==
    /\ Idle
    /\ InitContext("stream", "none", "none")
    /\ route0 = "/a"
    /\ props = EmptyProps
    /\ pipeline = DefaultPipeline

StepAstro ==
    \/ Render
    \/ \E p \in {NoPayload, Path("/b")} : Next(p)
    \/ \E own \in BOOLEAN : HandlerReturn(own)
    \/ MwReturn(FALSE, "none")
    \/ \E p \in {Path("/b"), Req("/404")} :
          RewriteWithin(p, AstroMaxCounter)
    \/ SetLocals("obj1")
    \/ \E p \in PropsInputs : CreateAstro(p)
    \/ \E g \in 1..MaxGlobals : ReadSlots(g)

SpecAstro == InitAstro /\ [][StepAstro]_vars

\* ---------------- two contexts over one pipeline (lines 219-268)
\* RenderContext.create makes one context per request; every field is an
\* instance field.  The Request and AstroCookies objects of both requests
\* live in the same heap; the pipeline is shared and only read.
TwoMaxCounter == 2

\* the instance fields of the running context, with its control state and
\* history
Own ==
    [locals |-> locals, pathname |-> pathname, request |-> request,
     routeData |-> routeData, status |-> status, cookies |-> cookies,
     params |-> params, url |-> url, props |-> props,
     originalRoute |-> originalRoute, isRewriting |-> isRewriting,
     counter |-> counter, results |-> results, stack |-> stack,
     outcome |-> outcome, final |-> final, thrown |-> thrown,
     lastOp |-> lastOp, ops |-> ops, route0 |-> route0,
     anchors |-> anchors, mwRewrites |-> mwRewrites, drops |-> drops,
     allRewrote |-> allRewrote, setNested |-> setNested,
     lastWrite |-> lastWrite]

\* lines 219-242: a context as create() returns it, for the Request and the
\* cookie jar at index i
Created(route, i) ==
    [locals |-> "obj0", pathname |-> route, request |-> i,
     routeData |-> route, status |-> IF route = "/404" THEN 404 ELSE 200,
     cookies |-> i, params |-> GetParams(route, route), url |-> route,
     props |-> EmptyProps, originalRoute |-> route, isRewriting |-> FALSE,
     counter |-> 0, results |-> 0, stack |-> <<>>, outcome |-> "created",
     final |-> NoResp, thrown |-> "none", lastOp |-> Op("create", ""),
     ops |-> 0, route0 |-> route, anchors |-> {}, mwRewrites |-> 0,
     drops |-> 0, allRewrote |-> TRUE, setNested |-> {},
     lastWrite |-> NewJar]

InitialRequest(route) ==
    [url |-> route, bodyUsed |-> FALSE, locals |-> NoLocals,
     origin |-> "initial", body |-> "stream", address |-> "none",
     sent |-> FALSE, lang |-> "none"]

\* line 242: `counter = 0` is an instance field, so the context that is
\* resumed finds its own count
CounterShared(saved) == counter
CounterOf(saved) == saved.counter

\* the fields the code finds when it goes on with the context `saved`
Resume(saved) ==
    /\ locals' = saved.locals
    /\ pathname' = saved.pathname
    /\ request' = saved.request
    /\ routeData' = saved.routeData
    /\ status' = saved.status
    /\ cookies' = saved.cookies
    /\ params' = saved.params
    /\ url' = saved.url
    /\ props' = saved.props
    /\ originalRoute' = saved.originalRoute
    /\ isRewriting' = saved.isRewriting
    /\ counter' = CounterOf(saved)
    /\ results' = saved.results
    /\ stack' = saved.stack
    /\ outcome' = saved.outcome
    /\ final' = saved.final
    /\ thrown' = saved.thrown
    /\ lastOp' = saved.lastOp
    /\ ops' = saved.ops
    /\ route0' = saved.route0
    /\ anchors' = saved.anchors
    /\ mwRewrites' = saved.mwRewrites
    /\ drops' = saved.drops
    /\ allRewrote' = saved.allRewrote
    /\ setNested' = saved.setNested
    /\ lastWrite' = saved.lastWrite

TwoRoutes == {"/a", "/404"}

InitTwo ==
    /\ Idle
    /\ \E r \in TwoRoutes :
          /\ parked = Created(r, 2)
          /\ requests = <<InitialRequest("/a"), InitialRequest(r)>>
    /\ jars = <<NewJar, NewJar>>
    /\ twin = [ctx |-> Created("/a", 1),
               requests |-> <<InitialRequest("/a")>>,
               jars |-> <<NewJar>>,
               mark |-> Created("/a", 1)]
    /\ turn = 1
    /\ phase = "main"
    /\ locals = "obj0"
    /\ pathname = "/a"
    /\ request = 1
    /\ routeData = "/a"
    /\ status = 200
    /\ cookies = 1
    /\ params = GetParams("/a", "/a")
    /\ url = "/a"
    /\ props = EmptyProps
    /\ originalRoute = "/a"
    /\ isRewriting = FALSE
    /\ counter = 0
    /\ results = 0
    /\ stack = <<>>
    /\ outcome = "created"
    /\ final = NoResp
    /\ thrown = "none"
    /\ lastOp = Op("create", "")
    /\ ops = 0
    /\ route0 = "/a"
    /\ anchors = {}
    /\ mwRewrites = 0
    /\ drops = 0
    /\ allRewrote = TRUE
    /\ setNested = {}
    /\ lastWrite = NewJar
    /\ pipeline = DefaultPipeline
    /\ helperOut = NoOut
    /\ memo = NoMemo
    /\ seen = NoneSeen
    /\ astroPagePartial = 0
    /\ partials = <<>>
    /\ globals = <<>>
    /\ slotsMade = 0
    /\ slotsOut = NoSlots

\* what the user code of each request writes
CookieOf(t) == IF t = 1 THEN "v1" ELSE "v2"
LocalsOf(t) == IF t = 1 THEN "obj1" ELSE "arr"

\* one step of the request that is running
StepOne ==
    \/ Render
    \/ \E p \in {NoPayload, Path("/old")} : Next(p)
    \/ \E own \in BOOLEAN : HandlerReturn(own)
    \/ MwReturn(FALSE, "none")
    \/ RewriteWithin(Path("/b"), TwoMaxCounter)
    \/ SetCookie("sid", CookieOf(turn))
    \/ SetLocals(LocalsOf(turn))

\* the running context has made no step since the last change of run
Level == Own = twin.mark

\* the running request is suspended at an await and the other one goes on
Switch ==
    /\ phase = "main"
    /\ turn = 1 => Level
    /\ Resume(parked)
    /\ parked' = Own
    /\ turn' = 3 - turn
    /\ UNCHANGED <<requests, jars, pipeline, helperOut, memo, seen,
                   astroVars, twin, phase, actVars>>

\* the first request makes a step
StepFirst ==
    /\ phase = "main" /\ turn = 1
    /\ Level
    /\ StepOne

\* the second request makes a step
StepSecond ==
    /\ phase = "main" /\ turn = 2
    /\ StepOne

\* between the two runs, after a step of the first request or of its
\* copy: the running context and all objects of its run are put aside and
\* those of the other run are taken up
Exchange ==
    /\ turn = 1
    /\ ~Level
    /\ Resume(twin.ctx)
    /\ requests' = twin.requests
    /\ jars' = twin.jars
    /\ twin' = [ctx |-> Own, requests |-> requests, jars |-> jars,
                mark |-> twin.ctx]
    /\ phase' = IF phase = "main" THEN "alone" ELSE "main"
    /\ UNCHANGED <<pipeline, helperOut, memo, seen, astroVars, parked, turn,
                   actVars>>

\* the copy repeats the step the first request made: the same operation
\* with the same input
Replay ==
    /\ phase = "alone"
    /\ Level
    /\ StepOne
    /\ lastOp' = twin.ctx.lastOp

StepTwo == Switch \/ StepFirst \/ StepSecond \/ Exchange \/ Replay

SpecTwo == InitTwo /\ [][StepTwo]_vars

\* ============================================================== claims
\* the Response the latest return of render() handed to its caller
Delivered == IF stack = <<>> THEN final ELSE Top.held
\* rewrites triggered so far: rewrite() calls that reached render() again,
\* and next(payload) calls that were resolved
RewritesTriggered == (counter - 1) + mwRewrites
RewriteDone == {Op("rewrite", "ok"), Op("rewrite", "loop")}
IsLoopResponse(r) == r.status = 508 /\ r.body = "Loop Detected"

\* C1 (as stated): when rewrites were triggered 4 times in succession, every
\* render attempt requesting another rewrite and returning its result, the
\* outermost render() returns 508 "Loop Detected".
C1_FourRewritesGive508 ==
    (outcome = "returned" /\ PassThrough /\ allRewrote
        /\ RewritesTriggered >= 4)
    => IsLoopResponse(final)

\* C1 (amended): the 4th invocation of render() on a context, which is the
\* 3rd rewrite() call, hands its caller the 508 "Loop Detected" Response and
\* raises nothing; when every piece of user code hands on the Response it
\* was handed, the outermost render() returns that 508 Response.
C1_LoopDetected ==
    /\ lastOp = Op("rewrite", "loop")
         => /\ counter = 4
            /\ Top.held = LoopDetected
            /\ Top.exc = "none"
    /\ (outcome = "returned" /\ PassThrough /\ counter >= 4)
         => IsLoopResponse(final)

C1_Witness ==
    outcome = "returned" /\ PassThrough /\ counter = 4 /\ final.status = 508

\* C2 (as stated): the counter never exceeds 4, whatever the middleware and
\* the handlers do.
C2_CounterAtMostFour == counter <= 4

\* C3 (as stated): a cookie written during a nested rewrite is in the jar
\* attached to the Response of the outermost render(), once, with the value
\* written last (all user code handing on the Response it was handed).
C3_NestedCookiesReachResponse ==
    (outcome = "returned" /\ PassThrough)
    => \A n \in setNested :
          /\ final.jar # 0
          /\ jars[final.jar][n] = lastWrite[n]

\* the values that are objects; null is not one
Objects == {"obj0", "obj1", "arr"}

\* C4 (as stated): assigning a non-object to locals raises LocalsNotAnObject
\* and leaves the context's locals and every Request's locals slot as they
\* were.
C4_LocalsRejected ==
    [][(lastOp'.op = "setLocals" /\ lastOp'.arg \notin Objects)
        => /\ locals' = locals
           /\ requests' = requests
           /\ Len(stack') = Len(stack)
           /\ stack'[Len(stack')].exc = "LocalsNotAnObject"]_vars

\* C5: a page dispatch builds a new Render Result, not cancelled and held by
\* no other render attempt; when the page's rendering throws, that Result is
\* cancelled before the exception leaves render(), the exception raised is
\* the one thrown, and there is no Response and no new Result; when the
\* rendering returns, the Result is still not cancelled.
C5_ResultLifecycle ==
    [][/\ (lastOp'.op \in {"next", "nextPayload"} /\ lastOp'.arg = "ok"
             /\ stack'[Len(stack')].kind = "page")
          => /\ results' = results + 1
             /\ stack'[Len(stack')].result.id = results'
             /\ ~stack'[Len(stack')].result.cancelled
             /\ \A i \in 1..Len(stack) : stack[i].result.id < results'
       /\ (lastOp'.op = "handlerThrow" /\ Top.kind = "page")
          => /\ Len(stack') = Len(stack)
             /\ stack'[Len(stack')].result.id = Top.result.id
             /\ stack'[Len(stack')].result.cancelled
             /\ stack'[Len(stack')].exc = lastOp'.arg
             /\ Top.exc # "none" => stack'[Len(stack')].exc = Top.exc
             /\ stack'[Len(stack')].held = NoResp
             /\ results' = results
       /\ (lastOp'.op = "handlerReturn" /\ Top.kind = "page")
          => /\ stack'[Len(stack')].result.id = Top.result.id
             /\ ~stack'[Len(stack')].result.cancelled
       /\ (lastOp'.op = "mwThrow" /\ Top.result.fate = "threw")
          => Top.result.cancelled]_vars

C5_Witness ==
    /\ Running
    /\ Top.result.id = 2
    /\ Top.result.cancelled
    /\ Top.exc = "UserError"

\* C6 (as stated): no Response returned by render() carries the route-type
\* header, whatever the route type, the middleware and the nesting; the
\* reroute and rewrite markers of a Response handed on are still on it.
C6_RouteTypeNeverReturned ==
    [][/\ lastOp'.op = "mwReturn"
          => /\ Delivered'.routeType = "none"
             /\ lastOp'.arg = "held"
                  => /\ Top.held.reroute => Delivered'.reroute
                     /\ Top.held.rewrite => Delivered'.rewrite
       /\ lastOp' \in {Op("rewrite", "loop"), Op("render", "")}
          => Delivered'.routeType = "none"
       /\ lastOp' = Op("handlerReturn", "held")
          => /\ Top.held.reroute => stack'[Len(stack')].held.reroute
             /\ Top.held.rewrite => stack'[Len(stack')].held.rewrite]_vars

\* C7: originalRoute is the route the context was created with, and every
\* rewrite resolution, by next(payload) or by rewrite(), was anchored on it.
C7_AnchoredOnOriginalRoute ==
    /\ originalRoute = route0
    /\ anchors \subseteq {route0}

C7_Witness ==
    /\ counter >= 3
    /\ mwRewrites >= 1
    /\ routeData # originalRoute
    /\ anchors # {}

\* the steps in which a rewrite was resolved and made
SuccessOps == RewriteDone \cup {Op("nextPayload", "ok"),
                                Op("nextPayloadThrows", "RedirectError")}

\* C8: isRewriting is false on a new context, is true after a successful
\* rewrite of either kind, never goes back to false, and stays false over
\* every step that is not a successful rewrite.
C8_IsRewritingSticky ==
    /\ ~isRewriting
    /\ [][/\ isRewriting => isRewriting'
          /\ lastOp' \in SuccessOps => isRewriting'
          /\ (~isRewriting /\ lastOp' \notin SuccessOps) => ~isRewriting']_vars

C8_Witness ==
    /\ isRewriting
    /\ mwRewrites = 1
    /\ counter = 1
    /\ lastOp.op = "handlerReturn"

\* C9: next(payload), once resolved, sets routeData, the component, status
\* 200 and isRewriting, changes no other field of the context, starts no new
\* render() and dispatches the new route in the same render attempt;
\* next() without a payload changes no field of the context.
C9_MiddlewareRewriteFrame ==
    [][/\ lastOp' = Op("nextPayload", "ok")
          => /\ status' = 200
             /\ isRewriting'
             /\ stack'[Len(stack')].comp = routeData'
             /\ UNCHANGED <<request, url, cookies, params, pathname, props,
                            originalRoute, counter, locals>>
             /\ UNCHANGED <<requests, jars>>
             /\ Len(stack') = Len(stack)
             /\ RouteType(routeData') \in {"page", "endpoint"}
                  => /\ stack'[Len(stack')].pc = "handler"
                     /\ stack'[Len(stack')].kind = RouteType(routeData')
             /\ RouteType(routeData') \in {"redirect", "fallback"}
                  => stack'[Len(stack')].held # NoResp
       /\ lastOp'.op = "next" => UNCHANGED ctxVars]_vars

C9_Witness ==
    /\ lastOp = Op("nextPayload", "ok")
    /\ route0 = "/404"
    /\ routeData = "/b"
    /\ status = 200
    /\ Top.kind = "page"

\* C10: a successful rewrite() replaces routeData, request (the supplied
\* Request, or a clone at the new URL), url (the new request's), cookies (a
\* new jar), params and pathname (from the new URL), sets isRewriting and
\* status 200 and calls render() again on the same context with the new
\* component; then pathname is url's path and url is the request's URL.
C10_ContextRewrite ==
    [][lastOp' \in RewriteDone
          => /\ request' = Len(requests) + 1
             /\ Len(requests') = request'
             /\ requests'[request'].origin \in {"supplied", "clone"}
             /\ url' = requests'[request'].url
             /\ cookies' = Len(jars) + 1
             /\ Len(jars') = cookies'
             /\ jars'[cookies'] = NewJar
             /\ params' = GetParams(routeData', url')
             /\ pathname' = url'
             /\ isRewriting'
             /\ status' = 200
             /\ counter' = counter + 1
             /\ UNCHANGED <<originalRoute, locals, props>>
             /\ lastOp'.arg = "ok"
                  => /\ Len(stack') = Len(stack) + 1
                     /\ stack'[Len(stack')].comp = routeData'
                     /\ stack'[Len(stack')].cookies = cookies'
                     /\ stack'[Len(stack')].ctxRequest = request'
                     /\ stack'[Len(stack')].pc = "mw"]_vars

C10_Witness ==
    /\ lastOp = Op("rewrite", "ok")
    /\ requests[request].origin = "supplied"
    /\ pathname = "/404"
    /\ route0 = "/a"
    /\ Depth = 3

\* C11 (as stated): with no address stored on the Request, a server-like
\* context with no adapter name and a null body fails with the error saying
\* the site is static, one with an adapter name fails with the error naming
\* the adapter; a stored address is returned in every mode.
C11_AddressErrorsAsStated ==
    lastOp.op = "clientAddress"
    => LET req == requests[request] IN
       /\ req.address # "none"
            => helperOut.value = req.address /\ helperOut.error = "none"
       /\ (req.address = "none" /\ pipeline.serverLike
             /\ pipeline.adapterName = "none" /\ req.body = "null")
            => helperOut.error = "StaticClientAddressNotAvailable"
       /\ (req.address = "none" /\ pipeline.serverLike
             /\ pipeline.adapterName # "none")
            => helperOut.error
                 = "ClientAddressNotAvailable:" \o pipeline.adapterName

\* C11 (amended): with no address stored, a server-like context whose
\* Request body is null fails with the prerender error, with or without an
\* adapter name; a server-like one with a body and an adapter name fails
\* with the error naming the adapter; every other one fails with the error
\* saying the site is static; the error is raised in the calling code.  A
\* stored address is returned in every mode.
C11_AddressErrors ==
    lastOp.op = "clientAddress"
    => LET req == requests[request] IN
       /\ req.address # "none"
            => /\ helperOut.value = req.address
               /\ helperOut.error = "none"
               /\ Top.exc = "none"
       /\ req.address = "none"
            => /\ Top.exc = helperOut.error
               /\ helperOut.value = "none"
               /\ helperOut.error =
                    (IF pipeline.serverLike /\ req.body = "null"
                     THEN "PrerenderClientAddressNotAvailable"
                     ELSE IF pipeline.serverLike
                             /\ pipeline.adapterName # "none"
                     THEN "ClientAddressNotAvailable:"
                             \o pipeline.adapterName
                     ELSE "StaticClientAddressNotAvailable")

C11_Witness ==
    /\ lastOp.op = "clientAddress"
    /\ pipeline.serverLike
    /\ requests[request].body = "stream"
    /\ helperOut.error = "ClientAddressNotAvailable:node"
    /\ Top.exc = "ClientAddressNotAvailable:node"

\* the Response redirect() owes its caller for the input it was given
RedirectOwed(in) ==
    [status |-> IF in[2] = 0 THEN 302 ELSE in[2], location |-> in[1],
     body |-> "none"]

\* C14 (as stated): redirect(), of the API context and of the page partial,
\* returns a body-less Response with the given Location and the given status
\* or 302 and changes no field of the context; when the Request is marked as
\* response sent it fails with ResponseSentError and returns nothing.
C14_RedirectAsStated ==
    [][lastOp'.op \in {"apiRedirect", "pageRedirect"}
        => /\ UNCHANGED <<ctxVars, heapVars>>
           /\ IF requests[request].sent
              THEN /\ helperOut'.error = "ResponseSentError"
                   /\ helperOut'.value = "none"
              ELSE /\ helperOut'.error = "none"
                   /\ helperOut'.value = RedirectOwed(helperOut'.input)]_vars

\* C14 (amended): redirect() of the page partial does as stated; redirect()
\* of the API context makes no test of the Request and returns the Response
\* also when the Request is marked as response sent.
C14_Redirect ==
    [][lastOp'.op \in {"apiRedirect", "pageRedirect"}
        => /\ UNCHANGED <<ctxVars, heapVars>>
           /\ IF lastOp'.op = "pageRedirect" /\ requests[request].sent
              THEN /\ helperOut'.error = "ResponseSentError"
                   /\ helperOut'.value = "none"
                   /\ stack'[Len(stack')].exc = "ResponseSentError"
              ELSE /\ helperOut'.error = "none"
                   /\ helperOut'.value = RedirectOwed(helperOut'.input)
                   /\ stack' = stack]_vars

C14_Witness ==
    /\ lastOp.op = "pageRedirect"
    /\ requests[request].sent
    /\ helperOut.error = "ResponseSentError"
    /\ Top.exc = "ResponseSentError"

\* C12 (as stated): two successive reads of the current locale on a context
\* that is not rewriting, with nothing done in between, give the same value,
\* and the second read makes no call of the locale resolver, whatever the
\* i18n configuration, the route and the URL.
C12_CurrentLocaleComputedOnce ==
    [][(lastOp.op = "currentLocale" /\ lastOp'.op = "currentLocale"
          /\ ~isRewriting)
        => /\ helperOut'.value = helperOut.value
           /\ seen'.calls = seen.calls]_vars

\* the private field an accessor keeps its value in
FieldOf(op) ==
    CASE op = "currentLocale" -> "current"
      [] op = "preferredLocale" -> "preferred"
      [] op = "preferredLocaleList" -> "list"
LocaleOps == {"currentLocale", "preferredLocale", "preferredLocaleList"}

\* C13 (as stated): once one of the three locale values has been computed
\* on a context, every later read of it gives the value computed first and
\* makes no call of a resolver, also after rewrites of either kind.
C13_LocaleNeverRecomputed ==
    [][(lastOp'.op \in LocaleOps /\ pipeline.i18n.on
          /\ seen[FieldOf(lastOp'.op)] # "unread")
        => /\ helperOut'.value = seen[FieldOf(lastOp'.op)]
           /\ seen'.calls = seen.calls]_vars


\* C15: a context-API rewrite with a payload that is not a Request, made
\* when the body of the context's request was consumed, fails with
\* RewriteWithBodyUsed and starts no render(): the counter, the call depth
\* and the context's request stay as they were.  A rewrite that succeeds
\* with a cloned request therefore had an unconsumed body; one with a
\* Request payload installs that Request as it is (new, body unread, no
\* locals) whatever the state of the old body.  (Payloads that resolve to
\* no route fail before the request is looked at.)
C15_RewriteBodyCheck ==
    [][lastOp'.op = "rewrite" =>
        /\ lastOp'.arg = "RewriteWithBodyUsed" =>
              /\ requests[request].bodyUsed
              /\ counter' = counter
              /\ Len(stack') = Len(stack)
              /\ stack'[Len(stack')].exc = "RewriteWithBodyUsed"
              /\ stack'[Len(stack')].held = NoResp
              /\ request' = request /\ requests' = requests
        /\ (lastOp'.arg \in {"ok", "loop"}
              /\ requests'[request'].origin = "clone") =>
              /\ ~requests[request].bodyUsed
              /\ requests'[request'].body = requests[request].body
        /\ (lastOp'.arg \in {"ok", "loop"}
              /\ requests'[request'].origin = "supplied") =>
              /\ request' = Len(requests) + 1
              /\ requests'[request'] =
                    [url |-> url', bodyUsed |-> FALSE, locals |-> NoLocals,
                     origin |-> "supplied", body |-> "null",
                     address |-> "none", sent |-> FALSE,
                     lang |-> SuppliedLang]
        /\ (requests[request].bodyUsed
              /\ lastOp'.arg \notin {"RewriteFailed", "RewriteWithBodyUsed"})
              => requests'[request'].origin = "supplied"]_vars

\* a rewrite to a path was refused because the body had been read
C15_Witness ==
    /\ lastOp = Op("rewrite", "RewriteWithBodyUsed")
    /\ requests[request].bodyUsed
    /\ Running /\ Top.exc = "RewriteWithBodyUsed"


\* C16: the terminal handler dispatches on the type of the route that is
\* current once any next(payload) rewrite has been resolved.  A fallback
\* route gives a body-less 500 response tagged fallback, a redirect route
\* the redirect renderer's response; both come back in the same step with
\* no cookie jar touched and no Render Result built.  An endpoint or a page
\* is started instead, and when it hands back a response that carries a
\* cookie jar, every cookie of that jar is merged into the jar this
\* render() captured, and no other jar changes.
C16_DispatchByRouteType ==
    [][LET top2 == stack'[Len(stack')] IN
       /\ (lastOp'.op \in {"next", "nextPayload"} /\ lastOp'.arg = "ok") =>
            CASE RouteType(routeData') = "fallback" ->
                    /\ top2.held = [status |-> 500, body |-> "none",
                                    routeType |-> "fallback",
                                    reroute |-> FALSE, rewrite |-> FALSE,
                                    jar |-> 0, tagged |-> TRUE]
                    /\ top2.pc = "mw"
                    /\ jars' = jars /\ results' = results
                    /\ top2.result = Top.result
              [] RouteType(routeData') = "redirect" ->
                    /\ top2.held = RenderRedirect
                    /\ top2.pc = "mw"
                    /\ jars' = jars /\ results' = results
                    /\ top2.result = Top.result
              [] OTHER ->
                    /\ top2.pc = "handler"
                    /\ top2.kind = RouteType(routeData')
                    /\ top2.held = NoResp
                    /\ jars' = jars
       /\ lastOp'.op = "handlerReturn" =>
            /\ top2.held.jar # 0 =>
                 \A n \in CookieNames :
                    jars'[Top.cookies][n] =
                       IF jars[top2.held.jar][n] # NoCookie
                       THEN jars[top2.held.jar][n]
                       ELSE jars[Top.cookies][n]
            /\ top2.held.jar = 0 => jars' = jars
            /\ \A j \in 1..Len(jars) : j # Top.cookies => jars'[j] = jars[j]
            /\ Len(jars') = Len(jars)]_vars

\* a page or endpoint handed back a response whose jar held a cookie that
\* the jar of this attempt did not have, and has it now
C16_Witness ==
    /\ lastOp.op = "handlerReturn"
    /\ Running
    /\ Top.held.jar # 0
    /\ Top.held.jar # Top.cookies
    /\ \E n \in CookieNames :
          /\ jars[Top.held.jar][n] # NoCookie
          /\ jars[Top.cookies][n] = jars[Top.held.jar][n]


\* the routes line 354 names
ErrorRoutes == {"/404", "/500"}

\* C17, as stated: a page response is tagged page, carries the reroute
\* marker iff the route found at dispatch was /404 or /500 and the rewrite
\* marker iff isRewriting was true at dispatch; endpoint, redirect and
\* fallback responses get neither marker from the core.
C17_MarkersByDispatchTime ==
    [][lastOp'.op = "handlerReturn" /\ Top.kind = "page" =>
         LET r == stack'[Len(stack')].held IN
         /\ r.routeType = "page"
         /\ r.reroute = (Top.dRoute \in ErrorRoutes)
         /\ r.rewrite = Top.dFlag]_vars

\* C17, as the code has it: the markers are decided when the page's
\* rendering has returned, from the route and the isRewriting flag the
\* context has then, and a marker the rendered response already carries is
\* kept.  An endpoint's response is handed on as the endpoint returned it,
\* and redirect and fallback responses carry neither marker.
C17_MarkersAtReturn ==
    [][LET r == stack'[Len(stack')].held IN
       /\ (lastOp'.op = "handlerReturn" /\ Top.kind = "page") =>
            /\ r.routeType = "page"
            /\ r.reroute = \/ routeData \in ErrorRoutes
                           \/ lastOp'.arg = "held" /\ Top.held.reroute
            /\ r.rewrite = \/ isRewriting
                           \/ lastOp'.arg = "held" /\ Top.held.rewrite
       /\ (lastOp'.op = "handlerReturn" /\ Top.kind = "endpoint") =>
            /\ lastOp'.arg = "held" => r = Top.held
            /\ lastOp'.arg = "own" => ~r.reroute /\ ~r.rewrite
       /\ (lastOp'.op \in {"next", "nextPayload"} /\ lastOp'.arg = "ok"
             /\ RouteType(routeData') \in {"redirect", "fallback"}) =>
            ~r.reroute /\ ~r.rewrite]_vars

\* a page dispatched on a route that is not an error page, not rewritten
\* then, handed back a response that carries both markers
C17_Witness ==
    /\ lastOp.op = "handlerReturn"
    /\ Running
    /\ Top.held.routeType = "page"
    /\ Top.held.reroute /\ Top.held.rewrite
    /\ routeData \in ErrorRoutes /\ isRewriting
    /\ route0 \notin ErrorRoutes


\* C19: an exception raised inside the terminal handler by rewrite
\* resolution, by an endpoint or by redirect rendering reaches the
\* middleware as it is, with no response in its place, no further render()
\* and no cookie jar touched; when the middleware lets it go it leaves
\* render() as the same exception, and no response is produced or given
\* cookies for it.  When it is rewrite resolution that fails, routeData,
\* isRewriting and status are what they were before next(payload).
C19_ErrorsPropagate ==
    [][LET top2 == stack'[Len(stack')] IN
       /\ lastOp' = Op("nextPayload", "failed") =>
            /\ top2.exc = "RewriteFailed" /\ top2.held = NoResp
            /\ routeData' = routeData
            /\ isRewriting' = isRewriting
            /\ status' = status
            /\ counter' = counter /\ Len(stack') = Len(stack)
            /\ jars' = jars /\ outcome' = outcome /\ final' = final
       /\ lastOp'.op \in {"nextThrows", "nextPayloadThrows"} =>
            /\ top2.exc = "RedirectError" /\ top2.held = NoResp
            /\ counter' = counter /\ Len(stack') = Len(stack)
            /\ jars' = jars /\ outcome' = outcome /\ final' = final
       /\ (lastOp'.op = "handlerThrow" /\ Top.kind = "endpoint") =>
            /\ top2.exc = (IF Top.exc # "none" THEN Top.exc ELSE "UserError")
            /\ top2.held = NoResp
            /\ counter' = counter /\ Len(stack') = Len(stack)
            /\ jars' = jars /\ outcome' = outcome /\ final' = final
       /\ (lastOp'.op = "mwThrow" /\ Top.exc # "none") =>
            /\ jars' = jars /\ final' = final /\ counter' = counter
            /\ IF Len(stack) = 1
               THEN outcome' = "threw" /\ thrown' = Top.exc /\ stack' = <<>>
               ELSE /\ Len(stack') = Len(stack) - 1
                    /\ top2.exc = Top.exc /\ top2.held = NoResp
                    /\ outcome' = outcome]_vars

\* a failed rewrite resolution left render() as the exception it was, on a
\* context whose route, flag and status are those it was created with
C19_Witness ==
    /\ outcome = "threw"
    /\ thrown = "RewriteFailed"
    /\ lastOp = Op("mwThrow", "RewriteFailed")
    /\ routeData = route0 /\ ~isRewriting
    /\ final = NoResp


\* C18: while the context has not been rewritten, createAstro builds the
\* page partial on its first call only and every Astro global has that one
\* object as its base; once isRewriting is true each createAstro call
\* builds the page partial anew from the cookies, locals, params, url and
\* request the context has then.  Every Astro global has the props it was
\* created with, and its slots object is constructed on the first read of
\* Astro.slots and is the object every later read gives.
C18_AstroGlobals ==
    /\ [](~isRewriting => \A g \in 1..Len(globals) :
                             globals[g].base = astroPagePartial)
    /\ [][LET n == Len(globals) IN
          /\ lastOp'.op = "createAstro" =>
               /\ Len(globals') = n + 1
               /\ \A g \in 1..n : globals'[g] = globals[g]
               /\ globals'[n + 1].props = lastOp'.arg
               /\ globals'[n + 1].slots = 0
               /\ globals'[n + 1].base = astroPagePartial'
               /\ \A i \in 1..Len(partials) : partials'[i] = partials[i]
               /\ (~isRewriting /\ astroPagePartial # 0) =>
                     /\ astroPagePartial' = astroPagePartial
                     /\ partials' = partials
               /\ (isRewriting \/ astroPagePartial = 0) =>
                     /\ astroPagePartial' = Len(partials) + 1
                     /\ Len(partials') = Len(partials) + 1
                     /\ partials'[astroPagePartial'] =
                           [cookies |-> cookies, locals |-> locals,
                            params |-> params, url |-> url,
                            request |-> request,
                            response |-> Top.result.id]
          /\ lastOp'.op = "slots" =>
               LET g == slotsOut'.global IN
               /\ globals'[g].slots = slotsOut'.slots
               /\ slotsOut'.slots # 0
               /\ globals[g].slots # 0 => slotsOut'.slots = globals[g].slots
               /\ globals[g].slots = 0 =>
                     \A h \in 1..n : globals[h].slots # slotsOut'.slots
               /\ \A h \in 1..n : h # g => globals'[h] = globals[h]
               /\ globals'[g].props = globals[g].props
               /\ globals'[g].base = globals[g].base
          /\ lastOp'.op \notin {"createAstro", "slots"} =>
               /\ globals' = globals /\ partials' = partials
               /\ astroPagePartial' = astroPagePartial]_vars

\* on a context not rewritten, two globals with different props share the
\* page partial built first, and a slots object was read a second time
C18_Witness ==
    /\ ~isRewriting
    /\ Len(globals) >= 2
    /\ globals[1].base = globals[2].base
    /\ globals[1].props # globals[2].props
    /\ Len(partials) = 1
    /\ lastOp.op = "slots"
    /\ slotsOut.again
    /\ slotsOut.slots = globals[slotsOut.global].slots


\* a context as its request sees it: the fields, with every Request and
\* cookie jar it refers to replaced by that object's content
JarOf(j, js) == IF j = 0 THEN [some |-> FALSE, jar |-> NewJar]
                ELSE [some |-> TRUE, jar |-> js[j]]
RequestOf(r, reqs) ==
    IF r = 0 THEN [some |-> FALSE, req |-> InitialRequest("")]
    ELSE [some |-> TRUE, req |-> reqs[r]]
SeenResponse(r, js) == [r EXCEPT !.jar = JarOf(@, js)]
SeenFrame(f, reqs, js) ==
    [f EXCEPT !.cookies = JarOf(@, js),
              !.ctxRequest = RequestOf(@, reqs),
              !.hjar = JarOf(@, js),
              !.hreq = RequestOf(@, reqs),
              !.held = SeenResponse(@, js)]
SeenBy(c, reqs, js) ==
    [c EXCEPT !.request = RequestOf(@, reqs),
              !.cookies = JarOf(@, js),
              !.stack = [i \in DOMAIN c.stack |->
                            SeenFrame(c.stack[i], reqs, js)],
              !.final = SeenResponse(@, js)]

\* the first context, whichever request is running
First == IF turn = 1 THEN Own ELSE parked

\* the first request and its copy have made the same steps
InStep == phase = "main" /\ First = twin.mark

\* C20: two Render Contexts made for two requests over one pipeline do not
\* interact.  A step of one request leaves every field of the other
\* context, and every object that context refers to, as it was; a context
\* that is resumed finds what it had when it was suspended; and at every
\* point the first context, with its response, is exactly what a copy of
\* it is that made the same steps with no other context around.
C20_ContextsIndependent ==
    /\ [](InStep =>
            SeenBy(First, requests, jars)
               = SeenBy(twin.ctx, twin.requests, twin.jars))
    /\ []((phase = "alone" /\ Level) => ENABLED Replay)
    /\ [][/\ (phase = "main" /\ phase' = "main" /\ turn' = turn) =>
                SeenBy(parked', requests', jars')
                   = SeenBy(parked, requests, jars)
          /\ turn' # turn =>
                /\ SeenBy(Own, requests, jars)'
                      = SeenBy(parked, requests, jars)
                /\ SeenBy(parked', requests', jars')
                      = SeenBy(Own, requests, jars)]_vars

\* both requests have their responses, with different cookies, after the
\* first was rewritten and the second was not
C20_Witness ==
    /\ InStep
    /\ outcome = "returned" /\ parked.outcome = "returned"
    /\ First.counter = 2 /\ First.isRewriting
    /\ (IF turn = 1 THEN parked ELSE Own).counter = 1
    /\ First.final.jar # 0
    /\ jars[First.final.jar]["sid"] = "v1"


\* the steps that are a call of render(): by the entry point, or by a
\* context-API rewrite that got as far as line 414
RenderCalls == RewriteDone \cup {Op("render", "")}

\* C21: the counter starts at 0, goes up by one in every call of render()
\* (the first, and each one made by a context-API rewrite) and changes in
\* no other step, next(payload) included.  The call whose increment makes
\* the counter 4 hands back the Loop Detected response: no frame is
\* started for it, so no middleware, rewrite resolution or dispatch runs,
\* and the response carries no cookie jar.  A call that makes the counter
\* any other number, 5 included, starts the middleware.
C21_CounterAndLoopGuard ==
    /\ counter = 0
    /\ [][/\ lastOp' \in RenderCalls => counter' = counter + 1
          /\ lastOp' \notin RenderCalls => counter' = counter
          /\ (lastOp' \in RenderCalls /\ counter' = 4) =>
                /\ lastOp'.op = "rewrite" /\ lastOp'.arg = "loop"
                /\ Len(stack') = Len(stack)
                /\ stack'[Len(stack')].held =
                      [status |-> 508, body |-> "Loop Detected",
                       routeType |-> "none", reroute |-> FALSE,
                       rewrite |-> FALSE, jar |-> 0, tagged |-> FALSE]
                /\ stack'[Len(stack')].pc = Top.pc
                /\ results' = results /\ mwRewrites' = mwRewrites
                /\ Len(jars') = Len(jars) + 1
                /\ \A j \in 1..Len(jars) : jars'[j] = jars[j]
          /\ (lastOp' \in RenderCalls /\ counter' # 4) =>
                /\ lastOp'.arg # "loop"
                /\ Len(stack') = Len(stack) + 1
                /\ stack'[Len(stack')].pc = "mw"
                /\ stack'[Len(stack')].held = NoResp
                /\ stack'[Len(stack')].cookies = cookies']_vars

\* the fifth call of render() on one context started its middleware
C21_Witness ==
    /\ counter = 5
    /\ lastOp = Op("rewrite", "ok")
    /\ Running /\ Top.pc = "mw" /\ Top.held = NoResp


\* what the API context of a frame refers to (lines 419, 429, 451, 460,
\* 462) together with the jar render() captured (line 285)
Captured(f) == <<f.cookies, f.ctxRequest, f.ctxUrl, f.ctxParams>>

\* C22: a render attempt captures the context's cookie jar, request, url
\* and params when it starts, and keeps them to its end whatever a rewrite
\* makes of the context's fields: the response of a page or endpoint is
\* merged into that jar, and the response the attempt returns carries that
\* jar, in place of any jar the response carried before.  After a
\* context-API rewrite the context has a fresh jar and the calling attempt
\* still has its own.
C22_AttemptKeepsItsJar ==
    [][/\ \A i \in 1..Len(stack) :
            i <= Len(stack') => Captured(stack'[i]) = Captured(stack[i])
       /\ Len(stack') = Len(stack) + 1 =>
            Captured(stack'[Len(stack')])
               = <<cookies', request', url', params'>>
       /\ lastOp' \in RewriteDone =>
            /\ cookies' = Len(jars) + 1
            /\ jars'[cookies'] = NewJar
            /\ stack'[Len(stack)].cookies = Top.cookies
            /\ stack'[Len(stack)].cookies # cookies'
       /\ lastOp'.op = "handlerReturn" =>
            \A j \in 1..Len(jars) : j # Top.cookies => jars'[j] = jars[j]
       /\ lastOp'.op = "mwReturn" =>
            /\ Delivered'.jar = Top.cookies
            /\ jars' = jars]_vars

\* the outermost attempt returned the response of a rewrite: it carries
\* the jar the attempt started with, not the inner attempt's jar that it
\* carried before and that the context has now
C22_Witness ==
    /\ outcome = "returned"
    /\ lastOp = Op("mwReturn", "held")
    /\ counter = 2
    /\ final.jar = 1
    /\ cookies = 2
    /\ final.status = 200


\* the routes a rewrite by path can resolve to
PathTargets == {Resolve(p) : p \in {q \in RewritePayloads :
                                       CanResolve(q) /\ ~q.isRequest}}

\* C23: a context-API rewrite that fails leaves the context in one of two
\* states.  When the payload resolves to no route, no field has changed.
\* When it resolves and the copy of the request is refused because the
\* body was consumed, routeData is the rewrite target and request, url,
\* cookies, params, pathname, isRewriting, status and counter are what
\* they were.
C23_FailedRewriteState ==
    [][/\ lastOp' = Op("rewrite", "RewriteFailed") =>
            /\ UNCHANGED <<ctxVars, heapVars>>
            /\ stack'[Len(stack')].exc = "RewriteFailed"
       /\ lastOp' = Op("rewrite", "RewriteWithBodyUsed") =>
            /\ routeData' \in PathTargets
            /\ UNCHANGED <<request, url, cookies, params, pathname,
                           isRewriting, status, counter>>
            /\ UNCHANGED <<locals, props, originalRoute, heapVars>>
            /\ stack'[Len(stack')].exc = "RewriteWithBodyUsed"]_vars

\* a refused copy left a context that was never rewritten with the route
\* of the rewrite target
C23_Witness ==
    /\ lastOp = Op("rewrite", "RewriteWithBodyUsed")
    /\ routeData = "/b" /\ route0 = "/a"
    /\ pathname = "/a" /\ url = "/a" /\ request = 1
    /\ ~isRewriting /\ counter = 1


\* the values whose `typeof` is 'object'
ObjectTagged == {"obj0", "obj1", "arr", "null"}

C25_PropsPerAttempt ==
    [][/\ props' = props
       /\ \A i \in 1..Len(stack) :
             i <= Len(stack') => stack'[i].props = stack[i].props
       /\ Len(stack') = Len(stack) + 1 =>
             stack'[Len(stack')].props =
                IF props # EmptyProps THEN props
                ELSE <<"resolved", routeData', pathname'>>]_vars

\* a page of route /b is being rendered, after next('/b'), with the props
\* resolved for /a
C25_Witness ==
    /\ lastOp = Op("nextPayload", "ok")
    /\ Running /\ Top.kind = "page"
    /\ routeData = "/b"
    /\ props = EmptyProps
    /\ Top.props = <<"resolved", "/a", "/a">>


\* ---------------------------------------------------------------------
\* Actions: defineAction and its two server handlers
\* (src/packages/astro/src/actions/runtime/virtual/server.ts, 48-121)
\* ---------------------------------------------------------------------
MaxCalls == 2
MaxIds == 2

\* `accept` as given to defineAction: 'form', 'json' or left out
Accepts == {"form", "json", "none"}
\* `input` as given to defineAction: left out, a z.object(...) schema, or
\* another Zod type
Schemas == {"none", "object", "other"}
\* what a caller can pass: a FormData (form) or anything else, whose
\* content the schema accepts (valid) or not
ActionInputs == [tag : {"raw"}, form : BOOLEAN, valid : BOOLEAN, id : 1..MaxIds]

\* formDataToObject(formData, schema): a plain object built from the entries
FormDataToObject(input) == [input EXCEPT !.tag = "object", !.form = FALSE]
\* schema.safeParseAsync(value)
SafeParseAsync(value) ==
    [success |-> value.valid, data |-> [value EXCEPT !.tag = "parsed"]]

\* outcomes of a server handler
Unsupported == [error |-> "UNSUPPORTED_MEDIA_TYPE", issues |-> FALSE,
                handled |-> 0, arg |-> NoInput]
InputError == [error |-> "ActionInputError", issues |-> TRUE,
               handled |-> 0, arg |-> NoInput]
Handled(arg) == [error |-> "none", issues |-> FALSE, handled |-> 1, arg |-> arg]

\* the form handler without its FormData check
FormHandlerUnchecked(schema, input) ==
    IF schema # "object" THEN Handled(input)
    ELSE LET parsed == SafeParseAsync(FormDataToObject(input))
         IN  IF ~parsed.success THEN InputError ELSE Handled(parsed.data)
GetFormServerHandler(schema, input) ==
    IF ~input.form THEN Unsupported
    ELSE IF schema # "object" THEN Handled(input)
    ELSE LET parsed == SafeParseAsync(FormDataToObject(input))
         IN  IF ~parsed.success THEN InputError ELSE Handled(parsed.data)

GetJsonServerHandler(schema, input) ==
    IF input.form THEN Unsupported
    ELSE IF schema = "none" THEN Handled(input)
    ELSE LET parsed == SafeParseAsync(input)
         IN  IF ~parsed.success THEN InputError ELSE Handled(parsed.data)

\* const serverHandler = accept === 'form' ? ... : ...
ServerHandler(act, input) ==
    IF act.accept = "form" THEN GetFormServerHandler(act.schema, input)
    ELSE GetJsonServerHandler(act.schema, input)

\* callSafely(() => serverHandler(input)): runs the handler once and hands
\* an action error back as a value instead of throwing it
CallSafely(out) == [out EXCEPT !.thrown = FALSE]

DefineAction(accept, schema) ==
    /\ action = NoAction
    /\ actionOut = NoCall
    /\ action' = [accept |-> accept, schema |-> schema, defined |-> TRUE]
    /\ UNCHANGED <<ctxVars, heapVars, ctlVars, histVars, pipeline, helperOut,
                   memo, seen, astroVars, twoVars, actionOut>>

\* action(input) and action.orThrow(input)
CallAction(input, mode) ==
    /\ action # NoAction
    /\ actionOut.calls < MaxCalls
    /\ LET r == ServerHandler(action, input)
           out == [calls |-> actionOut.calls + 1, input |-> input,
                   mode |-> mode, error |-> r.error, issues |-> r.issues,
                   thrown |-> r.error # "none", handled |-> r.handled,
                   arg |-> r.arg,
                   handledInAll |-> actionOut.handledInAll + r.handled]
       IN  actionOut' = IF mode = "safe" THEN CallSafely(out) ELSE out
    /\ UNCHANGED <<ctxVars, heapVars, ctlVars, histVars, pipeline, helperOut,
                   memo, seen, astroVars, twoVars, action>>

StepAction ==
    \/ \E accept \in Accepts, schema \in Schemas : DefineAction(accept, schema)
    \/ \E input \in ActionInputs, mode \in {"safe", "orThrow"} :
           CallAction(input, mode)

SpecAction == Init /\ [][StepAction]_vars

\* a schema applies: a z.object schema on a form action, any schema on
\* another action
SchemaApplies == IF action.accept = "form" THEN action.schema = "object"
                 ELSE action.schema # "none"
WrongMedia == IF action.accept = "form" THEN ~actionOut.input.form
              ELSE actionOut.input.form

\* C26: a form action refuses every input that is not FormData and any other
\* action refuses every FormData input, both with UNSUPPORTED_MEDIA_TYPE; on
\* a refusal and on a validation failure (an input error carrying the issues)
\* the user handler is not called; in every other call it is called exactly
\* once, with the parsed data when a schema applies and with the raw input
\* when none does.
C26_ActionInputHandling ==
    actionOut.calls > 0 =>
        LET o == actionOut
            fails == ~WrongMedia /\ SchemaApplies /\ ~o.input.valid
        IN  /\ WrongMedia => o.error = "UNSUPPORTED_MEDIA_TYPE" /\ o.handled = 0
            /\ fails => o.error = "ActionInputError" /\ o.issues /\ o.handled = 0
            /\ (~WrongMedia /\ ~fails) =>
                   /\ o.error = "none"
                   /\ o.handled = 1
                   /\ o.arg.id = o.input.id
                   /\ o.arg.tag = IF SchemaApplies THEN "parsed" ELSE "raw"
                   /\ ~SchemaApplies => o.arg = o.input
            /\ o.handledInAll <= o.calls
            /\ (o.calls = 1) => o.handledInAll = o.handled
            /\ o.thrown <=> (o.mode = "orThrow" /\ o.error # "none")

\* a form action with a z.object schema has refused a JSON input, and on its
\* second call the FormData it got failed validation; the handler never ran
C26_Witness ==
    /\ action = [accept |-> "form", schema |-> "object", defined |-> TRUE]
    /\ actionOut.calls = 2
    /\ actionOut.error = "ActionInputError"
    /\ actionOut.input.form
    /\ actionOut.handledInAll = 0

====
